---- MODULE Spec2Model ----
(***************************************************************************)
(* A model of src/fun/boggle/boggle.py: the Board (construction,           *)
(* adjacency, check, all_words) and the sorted-dictionary lookups; of      *)
(* src/fun/hanoi/hanoi.py: the tower and its iterative and restricted      *)
(* solvers; and of pairwise in src/common/pycommon.py.                     *)
(*                                                                         *)
(* Strings (words and tiles) are sequences of character codes; Python      *)
(* lists (board.letters, dct) are functions on 0..n-1, so that indices     *)
(* read as in the source.                                                  *)
(***************************************************************************)
EXTENDS Integers, Sequences, FiniteSets, TLC

(* boggle.py: the board, the dictionary, the arguments of the calls, the   *)
(* last call with its outcome, the call before it, and the constructor     *)
(* call that is to make the board.                                         *)
VARIABLES size, letters, english, dct, response, args_min, cell, op, ret, prev, ctor

(* boggle.py, main(): the contents of the dictionary file, the position in *)
(* main, and its locals.                                                   *)
VARIABLES file, main_pc, all_possible_words, best_possible_score, your_words, your_score

(* hanoi.py: sys.argv[1], the tower, the position in the solver, the moves *)
(* the restricted solver has still to make, and the exception raised.      *)
VARIABLES argv_n, pegs, moves, pc, todo, err

(* pycommon.py: the argument of pairwise, the generator (its state, the    *)
(* position of its iterator, its locals), what the consumer has received,  *)
(* and whether the interpreter turns a StopIteration raised inside a       *)
(* generator into RuntimeError (PEP 479: Python 3.7 on) or ends the        *)
(* generator with it (Python 3.6).                                         *)
VARIABLES items, gen, yielded, generator_stop

board_vars ==
    <<size, letters, english, dct, response, args_min, cell, op, ret, prev, ctor>>
hanoi_vars == <<argv_n, pegs, moves, pc, todo, err>>
pairwise_vars == <<items, gen, yielded, generator_stop>>
main_vars ==
    <<file, main_pc, all_possible_words, best_possible_score, your_words, your_score>>

vars == <<board_vars, main_vars, hanoi_vars, pairwise_vars>>

----------------------------------------------------------------------------
(* Characters, ordered as their code points: 'a' < 'q' < 'u' < Cyrillic 'o'. *)

ch_a == 1
ch_q == 2
ch_u == 3
ch_ru == 4

EnChars == {ch_a, ch_q, ch_u}
RuChars == {ch_ru}

QU == <<ch_q, ch_u>>

(* Tiles of Board.LETTERS that the model uses ("a", "u", "qu"), and the    *)
(* lone "q" that only Board.from_list can place (as the tests do).         *)
EnTiles == {<<ch_a>>, <<ch_q>>, <<ch_u>>, QU}
RuTiles == {<<ch_ru>>}

----------------------------------------------------------------------------
(* Bounds of the model. *)

MaxSize == 7
MaxSpecial == 2
MaxWordLen == 3
MaxDictLen == 3
MaxMinLength == 2

(* The smallest board side main() accepts. *)
MIN_SIZE == 3

----------------------------------------------------------------------------
(* Python primitives. *)

PyLen(lst) == Cardinality(DOMAIN lst)

PyList(s) == [i \in 0..(Len(s) - 1) |-> s[i + 1]]

Min2(x, y) == IF x < y THEN x ELSE y

(* str.startswith *)
startswith(s, prefix) ==
    /\ Len(prefix) <= Len(s)
    /\ SubSeq(s, 1, Len(prefix)) = prefix

(* s[n:] *)
SliceFrom(s, n) == SubSeq(s, Min2(n, Len(s)) + 1, Len(s))

(* s[:n] *)
SliceTo(s, n) == SubSeq(s, 1, Min2(n, Len(s)))

(* s < t on str: lexicographic by code point, a proper prefix is smaller *)
RECURSIVE StrLess(_, _)
StrLess(s, t) ==
    IF t = <<>> THEN FALSE
    ELSE IF s = <<>> THEN TRUE
    ELSE IF s[1] = t[1] THEN StrLess(Tail(s), Tail(t))
    ELSE s[1] < t[1]

(* int(math.sqrt(n)) *)
ISqrt(n) == CHOOSE r \in 0..n : r * r <= n /\ n < (r + 1) * (r + 1)

RECURSIVE bisect_loop(_, _, _, _)
bisect_loop(a, x, lo, hi) ==
    IF lo < hi
    THEN LET mid == (lo + hi) \div 2
         IN  IF StrLess(a[mid], x)
             THEN bisect_loop(a, x, mid + 1, hi)
             ELSE bisect_loop(a, x, lo, mid)
    ELSE lo

bisect_left(a, x) == bisect_loop(a, x, 0, PyLen(a))

----------------------------------------------------------------------------
(* Board geometry. *)

top_edge(sz, index) == index < sz
(* only the last cell counts as bottom edge *)
bottom_edge_last(sz, index) == index >= sz * sz - 1
bottom_edge(sz, index) == index >= sz * (sz - 1)
left_edge(sz, index) == index % sz = 0
(* off by one: no cell counts as right edge *)
right_edge_never(sz, index) == index % sz = sz
right_edge(sz, index) == index % sz = sz - 1

above(sz, index) == index - sz
below(sz, index) == index + sz
left(sz, index) == index - 1
right(sz, index) == index + 1

(* The indices Board.adjacent yields, in the order it yields them. *)
adjacent(sz, index) ==
    (IF ~top_edge(sz, index)
     THEN (IF ~left_edge(sz, index) THEN <<above(sz, left(sz, index))>> ELSE <<>>)
          \o <<above(sz, index)>>
          \o (IF ~right_edge(sz, index) THEN <<above(sz, right(sz, index))>> ELSE <<>>)
     ELSE <<>>)
    \o (IF ~left_edge(sz, index) THEN <<left(sz, index)>> ELSE <<>>)
    \o (IF ~right_edge(sz, index) THEN <<right(sz, index)>> ELSE <<>>)
    \o (IF ~bottom_edge(sz, index)
        THEN (IF ~left_edge(sz, index) THEN <<below(sz, left(sz, index))>> ELSE <<>>)
             \o <<below(sz, index)>>
             \o (IF ~right_edge(sz, index) THEN <<below(sz, right(sz, index))>> ELSE <<>>)
        ELSE <<>>)

SeqRange(s) == {s[k] : k \in 1..Len(s)}

----------------------------------------------------------------------------
(* Board.check *)

RECURSIVE find_loop(_, _, _, _)
find_loop(lst, item, start, i) ==
    IF i >= PyLen(lst) THEN -1
    ELSE IF lst[i] = item /\ i >= start THEN i
    ELSE find_loop(lst, item, start, i + 1)

find(lst, item, start) == find_loop(lst, item, start, 0)

(* already_used is not consulted *)
RECURSIVE check_helper_revisit(_, _, _, _, _)
check_helper_revisit(sz, ls, word, last_index, already_used) ==
    IF word = <<>> THEN TRUE
    ELSE \E k \in 1..Len(adjacent(sz, last_index)) :
            LET index == adjacent(sz, last_index)[k]
                letter == ls[index]
            IN  /\ startswith(word, letter)
                /\ check_helper_revisit(sz, ls, SliceFrom(word, Len(letter)), index,
                                        already_used \cup {index})

RECURSIVE check_helper(_, _, _, _, _)
check_helper(sz, ls, word, last_index, already_used) ==
    IF word = <<>> THEN TRUE
    ELSE \E k \in 1..Len(adjacent(sz, last_index)) :
            LET index == adjacent(sz, last_index)[k]
                letter == ls[index]
            IN  /\ index \notin already_used
                /\ startswith(word, letter)
                /\ check_helper(sz, ls, SliceFrom(word, Len(letter)), index,
                                already_used \cup {index})

RECURSIVE check_loop(_, _, _, _, _)
check_loop(sz, ls, first, rest, index) ==
    IF index = -1 THEN FALSE
    ELSE IF check_helper(sz, ls, rest, index, {index}) THEN TRUE
    ELSE check_loop(sz, ls, first, rest, find(ls, first, index + 1))

Returned(v) == [exc |-> "none", val |-> v]
Raised(e) == [exc |-> e, val |-> "none"]

(* word[0] of an empty str raises IndexError *)
check(sz, ls, en, word) ==
    IF en /\ startswith(word, QU)
    THEN Returned(check_loop(sz, ls, SliceTo(word, 2), SliceFrom(word, 2),
                             find(ls, SliceTo(word, 2), 0)))
    ELSE IF word = <<>>
    THEN Raised("IndexError")
    ELSE Returned(check_loop(sz, ls, <<word[1]>>, SliceFrom(word, 1),
                             find(ls, <<word[1]>>, 0)))

----------------------------------------------------------------------------
(* Board.all_words and the dictionary lookups *)

(* The prefix test of _all_words_helper: the entry at the insertion point  *)
(* of `word` exists and starts with `word`.                                *)
(* exact match instead of startswith *)
has_prefix_exact(d, word) ==
    LET dct_index == bisect_left(d, word)
    IN  IF dct_index = PyLen(d) THEN FALSE
        ELSE d[dct_index] = word

has_prefix(d, word) ==
    LET dct_index == bisect_left(d, word)
    IN  IF dct_index = PyLen(d) THEN FALSE
        ELSE startswith(d[dct_index], word)

(* the length test is dropped *)
RECURSIVE all_words_helper_nomin(_, _, _, _, _, _, _)
all_words_helper_nomin(sz, ls, d, word, last_index, already_used, min_length) ==
    LET dct_index == bisect_left(d, word)
    IN  IF dct_index = PyLen(d) THEN {}
        ELSE (IF d[dct_index] = word THEN {word} ELSE {})
             \cup
             (IF ~has_prefix(d, word) THEN {}
              ELSE UNION { all_words_helper_nomin(sz, ls, d, word \o ls[adjacent_index],
                                                  adjacent_index,
                                                  already_used \cup {adjacent_index},
                                                  min_length) :
                           adjacent_index \in
                               SeqRange(adjacent(sz, last_index)) \ already_used })

(* the equality test is dropped: every long enough prefix is yielded *)
RECURSIVE all_words_helper_noeq(_, _, _, _, _, _, _)
all_words_helper_noeq(sz, ls, d, word, last_index, already_used, min_length) ==
    LET dct_index == bisect_left(d, word)
    IN  IF dct_index = PyLen(d) THEN {}
        ELSE (IF Len(word) >= min_length THEN {word} ELSE {})
             \cup
             (IF ~has_prefix(d, word) THEN {}
              ELSE UNION { all_words_helper_noeq(sz, ls, d, word \o ls[adjacent_index],
                                                 adjacent_index,
                                                 already_used \cup {adjacent_index},
                                                 min_length) :
                           adjacent_index \in
                               SeqRange(adjacent(sz, last_index)) \ already_used })

(* the search stops short of the last entry of the dictionary *)
RECURSIVE all_words_helper_offbyone(_, _, _, _, _, _, _)
all_words_helper_offbyone(sz, ls, d, word, last_index, already_used, min_length) ==
    LET dct_index == bisect_left(d, word)
    IN  IF dct_index >= PyLen(d) - 1 THEN {}
        ELSE (IF d[dct_index] = word /\ Len(word) >= min_length
              THEN {word} ELSE {})
             \cup
             (IF ~has_prefix(d, word) THEN {}
              ELSE UNION { all_words_helper_offbyone(sz, ls, d, word \o ls[adjacent_index],
                                                     adjacent_index,
                                                     already_used \cup {adjacent_index},
                                                     min_length) :
                           adjacent_index \in
                               SeqRange(adjacent(sz, last_index)) \ already_used })

(* the search returns once it has yielded a word *)
RECURSIVE all_words_helper_stop(_, _, _, _, _, _, _)
all_words_helper_stop(sz, ls, d, word, last_index, already_used, min_length) ==
    LET dct_index == bisect_left(d, word)
    IN  IF dct_index = PyLen(d) THEN {}
        ELSE IF d[dct_index] = word /\ Len(word) >= min_length THEN {word}
        ELSE IF ~has_prefix(d, word) THEN {}
        ELSE UNION { all_words_helper_stop(sz, ls, d, word \o ls[adjacent_index],
                                           adjacent_index,
                                           already_used \cup {adjacent_index},
                                           min_length) :
                     adjacent_index \in
                         SeqRange(adjacent(sz, last_index)) \ already_used }

(* The set of the words _all_words_helper yields. *)
RECURSIVE all_words_helper(_, _, _, _, _, _, _)
all_words_helper(sz, ls, d, word, last_index, already_used, min_length) ==
    LET dct_index == bisect_left(d, word)
    IN  IF dct_index = PyLen(d) THEN {}
        ELSE (IF d[dct_index] = word /\ Len(word) >= min_length
              THEN {word} ELSE {})
             \cup
             (IF ~has_prefix(d, word) THEN {}
              ELSE UNION { all_words_helper(sz, ls, d, word \o ls[adjacent_index],
                                            adjacent_index,
                                            already_used \cup {adjacent_index},
                                            min_length) :
                           adjacent_index \in
                               SeqRange(adjacent(sz, last_index)) \ already_used })

(* the last cell is never a starting cell *)
all_words_skip_last(sz, ls, d, min_length) ==
    UNION { all_words_helper(sz, ls, d, ls[i], i, {i}, min_length) :
            i \in 0..(sz * sz - 2) }

all_words(sz, ls, d, min_length) ==
    UNION { all_words_helper(sz, ls, d, ls[i], i, {i}, min_length) :
            i \in 0..(sz * sz - 1) }

(* the entry before the insertion point is compared *)
check_dictionary_before(d, word) ==
    LET index == bisect_left(d, word)
    IN  index > 0 /\ d[index - 1] = word

check_dictionary(d, word) ==
    LET index == bisect_left(d, word)
    IN  index < PyLen(d) /\ d[index] = word

----------------------------------------------------------------------------
(* Construction. *)

(* Board.LETTERS and Board.LETTERS_RU as tile -> number of copies, for the *)
(* tiles of the model.                                                     *)
LETTERS == (<<ch_a>> :> 9) @@ (QU :> 2) @@ (<<ch_u>> :> 4)
LETTERS_RU == (<<ch_ru>> :> 10)

Count(lst, t) == Cardinality({i \in DOMAIN lst : lst[i] = t})

(* lst is a possible outcome of random.sample(letter_set, len(lst)) *)
IsSample(lst, letter_set) ==
    \A i \in DOMAIN lst :
        /\ lst[i] \in DOMAIN letter_set
        /\ Count(lst, lst[i]) <= letter_set[lst[i]]

(* Board(size=sz, russian=russian), `sample` being what random.sample gave *)
Board(sz, russian, sample) ==
    [english |-> ~russian, letters |-> sample, size |-> sz]

(* Board.from_list(lst); `sample` is overwritten *)
from_list(lst, sample) ==
    [Board(ISqrt(PyLen(lst)), FALSE, sample) EXCEPT !.letters = lst]

----------------------------------------------------------------------------
(* Inputs. *)

Indices(sz) == 0..(sz * sz - 1)

(* Lists of sz*sz tiles: `filler` everywhere but in at most MaxSpecial     *)
(* places among `cells`, which hold any of `tiles`.                        *)
LetterLists(sz, filler, tiles, cells) ==
    UNION { { [i \in Indices(sz) |-> IF i \in S THEN f[i] ELSE filler] :
              f \in [S -> tiles] } :
            S \in { T \in SUBSET cells : Cardinality(T) <= MaxSpecial } }

Uniform(sz, t) == [i \in Indices(sz) |-> t]

(* Boards of side MIN_SIZE: built by from_list, by Board(size=...) and by  *)
(* Board(size=..., russian=True).                                          *)
BoardsOn(cells) ==
    { from_list(lst, Uniform(MIN_SIZE, <<ch_a>>)) :
      lst \in LetterLists(MIN_SIZE, <<ch_a>>, EnTiles, cells) }
    \cup { Board(MIN_SIZE, FALSE, s) :
           s \in { l \in LetterLists(MIN_SIZE, <<ch_a>>, EnTiles, cells) :
                   IsSample(l, LETTERS) } }
    \cup { Board(MIN_SIZE, TRUE, s) :
           s \in { l \in LetterLists(MIN_SIZE, <<ch_ru>>, RuTiles, cells) :
                   IsSample(l, LETTERS_RU) } }

Boards == BoardsOn(Indices(MIN_SIZE))

(* The boards of the enumeration have their other tiles among the first   *)
(* two cells of the first two rows and the last cell: pairs of these are   *)
(* adjacent along a row, a column or either diagonal, or (with the last    *)
(* cell) not adjacent.                                                     *)
WordBoards ==
    BoardsOn({0, 1, MIN_SIZE, MIN_SIZE + 1, MIN_SIZE * MIN_SIZE - 1})

RECURSIVE Strings(_, _)
Strings(chars, n) ==
    IF n = 0 THEN {<<>>}
    ELSE Strings(chars, n - 1)
         \cup { Append(s, c) : s \in Strings(chars, n - 1), c \in chars }

Words == Strings(EnChars, MaxWordLen) \cup Strings(RuChars, MaxWordLen)

(* Dictionary entries: "a", "aq", "qaq", "qu". *)
DictWords ==
    { <<ch_a>>, <<ch_a, ch_q>>, <<ch_q, ch_a, ch_q>>, QU }

RECURSIVE Lists(_, _)
Lists(elems, n) ==
    IF n = 0 THEN {PyList(<<>>)}
    ELSE Lists(elems, n - 1)
         \cup { [i \in 0..PyLen(l) |-> IF i < PyLen(l) THEN l[i] ELSE e] :
                l \in Lists(elems, n - 1), e \in elems }

(* Dictionaries of up to MaxDictLen distinct entries, in any order. *)
Dicts ==
    { d \in Lists(DictWords, MaxDictLen) :
        \A i, j \in DOMAIN d : i # j => d[i] # d[j] }

(* Dictionaries for the lookups alone, repeats allowed, with "" and "q" as *)
(* further entries                                                         *)
(* (a file that ends with a newline gives open_dictionary an empty entry). *)
LookupDicts == Lists(DictWords \cup {<<>>, <<ch_q>>}, MaxDictLen)

MinLengths == 1..MaxMinLength \cup {MIN_SIZE * MIN_SIZE + 1, 2 * MIN_SIZE * MIN_SIZE + 1}

(* A word of ten characters that five "qu" tiles spell, and a board and    *)
(* dictionaries that have it.                                              *)
LongWord == QU \o QU \o QU \o QU \o QU
LongBoards == { from_list(Uniform(MIN_SIZE, QU), Uniform(MIN_SIZE, <<ch_a>>)) }
LongDicts == { PyList(<<LongWord>>), PyList(<<QU, LongWord>>) }

----------------------------------------------------------------------------
(* boggle.py: the dictionary loader and score.  The contents of a file are *)
(* a sequence of characters; the newline sorts before every letter.        *)

ch_nl == 0

(* str.split(sep) for a separator of one character: the pieces between the *)
(* separators, the empty ones included                                     *)
RECURSIVE split_from(_, _, _)
split_from(s, sep, piece) ==
    IF s = <<>> THEN <<piece>>
    ELSE IF Head(s) = sep THEN <<piece>> \o split_from(Tail(s), sep, <<>>)
    ELSE split_from(Tail(s), sep, Append(piece, Head(s)))

split(s, sep) == split_from(s, sep, <<>>)

(* f.read().split("\n") *)
open_dictionary(contents) == PyList(split(contents, ch_nl))

score(word) ==
    IF Len(word) = 3 \/ Len(word) = 4 THEN 1
    ELSE IF Len(word) = 5 THEN 2
    ELSE IF Len(word) = 6 THEN 3
    ELSE IF Len(word) = 7 THEN 5
    ELSE IF Len(word) >= 8 THEN 11
    ELSE 0

----------------------------------------------------------------------------
(* hanoi.py: the tower.  A disk is the index of its letter ('a' is 0); a   *)
(* peg is the sequence of its disks, bottom first.                         *)

MaxDisks == 6

Last(s) == s[Len(s)]
Front(s) == SubSeq(s, 1, Len(s) - 1)

(* TowerOfHanoi(n); `exc` is the exception the last call on the tower      *)
(* raised                                                                  *)
TowerOfHanoi(n) ==
    [pegs |-> [p \in 0..2 |-> IF p = 0 THEN [i \in 1..n |-> i - 1] ELSE <<>>],
     moves |-> 0,
     exc |-> "none"]

(* the weight test is dropped *)
move_any(tower, src, dest, restricted) ==
    IF restricted /\ src # 1 /\ dest # 1
    THEN [tower EXCEPT !.exc = "ValueError"]
    ELSE IF tower.pegs[src] # <<>>
    THEN LET disk == Last(tower.pegs[src])
         IN  [pegs |-> [[tower.pegs EXCEPT ![src] = Front(@)]
                            EXCEPT ![dest] = Append(@, disk)],
              moves |-> tower.moves + 1,
              exc |-> "none"]
    ELSE [tower EXCEPT !.exc = "ValueError"]

move(tower, src, dest, restricted) ==
    IF restricted /\ src # 1 /\ dest # 1
    THEN [tower EXCEPT !.exc = "ValueError"]
    ELSE IF tower.pegs[src] # <<>>
    THEN LET disk == Last(tower.pegs[src])
         IN  IF tower.pegs[dest] = <<>> \/ Last(tower.pegs[dest]) < disk
             THEN [pegs |-> [[tower.pegs EXCEPT ![src] = Front(@)]
                                 EXCEPT ![dest] = Append(@, disk)],
                   moves |-> tower.moves + 1,
                   exc |-> "none"]
             ELSE [tower EXCEPT !.exc = "ValueError"]
    ELSE [tower EXCEPT !.exc = "ValueError"]

(* the printing and the sleep change nothing of the tower *)
move_and_print(tower, src, dest, restricted) == move(tower, src, dest, restricted)

finished(tower) == \A p \in 0..1 : Len(tower.pegs[p]) = 0

(* the test of finished() is dropped *)
move_between_unchecked(tower, src, dest) ==
    LET forth == move_and_print(tower, src, dest, FALSE)
    IN  IF forth.exc = "ValueError"
        THEN move_and_print(tower, dest, src, FALSE)
        ELSE forth

(* a ValueError of the first attempt leaves the tower as it was; one of    *)
(* the second attempt escapes                                              *)
move_between(tower, src, dest) ==
    IF finished(tower) THEN tower
    ELSE LET forth == move_and_print(tower, src, dest, FALSE)
         IN  IF forth.exc = "ValueError"
             THEN move_and_print(tower, dest, src, FALSE)
             ELSE forth

(* The pegs of the three move_between calls of one round of                *)
(* solve_iterative, by the parity of n.                                    *)
iterative_call(n, at) ==
    IF n % 2 = 0
    THEN CASE at = "first" -> <<0, 1>>
           [] at = "second" -> <<0, 2>>
           [] at = "third" -> <<1, 2>>
    ELSE CASE at = "first" -> <<0, 2>>
           [] at = "second" -> <<0, 1>>
           [] at = "third" -> <<1, 2>>

iterative_after(at) ==
    CASE at = "first" -> "second"
      [] at = "second" -> "third"
      [] at = "third" -> "while"

(* the unrestricted recursion of solve_rec, in the place of solve *)
RECURSIVE solve_direct(_, _, _)
solve_direct(disks, src, dest) ==
    IF disks = 1
    THEN << <<src, dest>> >>
    ELSE solve_direct(disks - 1, src, 3 - src - dest)
         \o << <<src, dest>> >>
         \o solve_direct(disks - 1, 3 - src - dest, dest)

(* The calls of move_and_print(src, dest, restricted=True) that the inner  *)
(* solve(disks, src, dest) of solve_restricted makes, in order, as pairs   *)
(* <<src, dest>>.                                                          *)
RECURSIVE solve(_, _, _)
solve(disks, src, dest) ==
    IF disks = 1
    THEN << <<src, 1>>, <<1, dest>> >>
    ELSE solve(disks - 1, src, dest)
         \o << <<src, 1>> >>
         \o solve(disks - 1, dest, src)
         \o << <<1, dest>> >>
         \o solve(disks - 1, src, dest)

----------------------------------------------------------------------------
(* pycommon.py: pairwise.  The generator is a record of its state          *)
(* ("created", "suspended" at the yield, "finished", or the exception it   *)
(* raised into its consumer), the position of iter(it) and its locals.     *)

MaxItems == 4

pairwise(it) ==
    [state |-> "created", pos |-> 0, first |-> "unbound", second |-> "unbound"]

(* A StopIteration that next(it) raises inside the generator: RuntimeError *)
(* for the consumer with generator_stop, the end of the generator without. *)
stop_inside(g, stop) ==
    [gen |-> [g EXCEPT !.state = IF stop THEN "RuntimeError" ELSE "finished"],
     out |-> <<>>]

yield(g) ==
    [gen |-> [g EXCEPT !.state = "suspended"], out |-> << <<g.first, g.second>> >>]

(* the first next() on the generator: lines 7-9 and the first yield *)
pairwise_start(it, g, stop) ==
    IF g.pos >= Len(it) THEN stop_inside(g, stop)
    ELSE LET g1 == [g EXCEPT !.first = it[g.pos + 1], !.pos = g.pos + 1]
         IN  IF g1.pos >= Len(it) THEN stop_inside(g1, stop)
             ELSE yield([g1 EXCEPT !.second = it[g1.pos + 1], !.pos = g1.pos + 1])

(* a later next(): lines 12-13 and the yield at the top of the loop *)
pairwise_resume(it, g, stop) ==
    LET g1 == [g EXCEPT !.first = g.second]
    IN  IF g1.pos >= Len(it) THEN stop_inside(g1, stop)
        ELSE yield([g1 EXCEPT !.second = it[g1.pos + 1], !.pos = g1.pos + 1])

----------------------------------------------------------------------------
(* The state machine: a constructed board, a loaded dictionary, the        *)
(* arguments of the calls (the player's response, --min, a cell), the last *)
(* call made with its outcome and the call before it.                      *)

NoCtor ==
    [kind |-> "none", size |-> 0, russian |-> FALSE, letters |-> PyList(<<>>)]

NoTower == TowerOfHanoi(0)

(* main() of boggle.py does not run *)
MainIdle ==
    /\ file = <<>>
    /\ main_pc = "none"
    /\ all_possible_words = {}
    /\ best_possible_score = 0
    /\ your_words = {}
    /\ your_score = 0

(* no solver of hanoi.py runs *)
HanoiIdle ==
    /\ argv_n = 0
    /\ pegs = NoTower.pegs
    /\ moves = NoTower.moves
    /\ pc = "none"
    /\ todo = <<>>
    /\ err = "none"

(* no generator of pairwise exists *)
PairwiseIdle ==
    /\ items = <<>>
    /\ gen = [pairwise(<<>>) EXCEPT !.state = "none"]
    /\ yielded = <<>>
    /\ generator_stop = TRUE

BoardWith(b, d, w, m, i, c) ==
    /\ size = b.size
    /\ letters = b.letters
    /\ english = b.english
    /\ dct = d
    /\ response = w
    /\ args_min = m
    /\ cell = i
    /\ op = "none"
    /\ ret = Returned("none")
    /\ prev = [op |-> "none", ret |-> Returned("none")]
    /\ ctor = c

InitWith(b, d, w, m, i) ==
    /\ BoardWith(b, d, w, m, i, NoCtor)
    /\ MainIdle
    /\ HanoiIdle
    /\ PairwiseIdle

Check ==
    /\ op' = "check"
    /\ ret' = check(size, letters, english, response)
    /\ prev' = [op |-> op, ret |-> ret]
    /\ UNCHANGED <<size, letters, english, dct, response, args_min, cell, ctor>>
    /\ UNCHANGED <<main_vars, hanoi_vars, pairwise_vars>>

(* the words are kept as a generator, which a second call in a row finds  *)
(* exhausted                                                               *)
AllWords_exhausted ==
    /\ op' = "all_words"
    /\ ret' = Returned(IF op = "all_words" THEN {}
                       ELSE all_words(size, letters, dct, args_min))
    /\ prev' = [op |-> op, ret |-> ret]
    /\ UNCHANGED <<size, letters, english, dct, response, args_min, cell, ctor>>
    /\ UNCHANGED <<main_vars, hanoi_vars, pairwise_vars>>

AllWords ==
    /\ op' = "all_words"
    /\ ret' = Returned(all_words(size, letters, dct, args_min))
    /\ prev' = [op |-> op, ret |-> ret]
    /\ UNCHANGED <<size, letters, english, dct, response, args_min, cell, ctor>>
    /\ UNCHANGED <<main_vars, hanoi_vars, pairwise_vars>>

(* a word that is not found is inserted where it belongs (bisect.insort) *)
CheckDictionary_insort ==
    /\ op' = "check_dictionary"
    /\ ret' = Returned(check_dictionary(dct, response))
    /\ dct' = IF check_dictionary(dct, response) THEN dct
              ELSE LET index == bisect_left(dct, response)
                   IN  [i \in 0..PyLen(dct) |->
                           IF i < index THEN dct[i]
                           ELSE IF i = index THEN response
                           ELSE dct[i - 1]]
    /\ prev' = [op |-> op, ret |-> ret]
    /\ UNCHANGED <<size, letters, english, response, args_min, cell, ctor>>
    /\ UNCHANGED <<main_vars, hanoi_vars, pairwise_vars>>

CheckDictionary ==
    /\ op' = "check_dictionary"
    /\ ret' = Returned(check_dictionary(dct, response))
    /\ prev' = [op |-> op, ret |-> ret]
    /\ UNCHANGED <<size, letters, english, dct, response, args_min, cell, ctor>>
    /\ UNCHANGED <<main_vars, hanoi_vars, pairwise_vars>>

(* The prefix test alone, as _all_words_helper makes it on entry. *)
HasPrefix ==
    /\ op' = "has_prefix"
    /\ ret' = Returned(has_prefix(dct, response))
    /\ prev' = [op |-> op, ret |-> ret]
    /\ UNCHANGED <<size, letters, english, dct, response, args_min, cell, ctor>>
    /\ UNCHANGED <<main_vars, hanoi_vars, pairwise_vars>>

Adjacent ==
    /\ op' = "adjacent"
    /\ ret' = Returned(adjacent(size, cell))
    /\ prev' = [op |-> op, ret |-> ret]
    /\ UNCHANGED <<size, letters, english, dct, response, args_min, cell, ctor>>
    /\ UNCHANGED <<main_vars, hanoi_vars, pairwise_vars>>

NoDict == PyList(<<>>)
PlainBoard(n) == from_list(Uniform(n, <<ch_a>>), Uniform(n, <<ch_a>>))

(* Enumeration over a board and a dictionary: one call. *)
Init ==
    \/ \E b \in WordBoards, d \in Dicts, m \in MinLengths : InitWith(b, d, <<>>, m, 0)
    \/ \E b \in LongBoards, d \in LongDicts, m \in MinLengths : InitWith(b, d, <<>>, m, 0)
Next == op = "none" /\ AllWords
Spec == Init /\ [][Next]_vars

(* Word verification over a board: one call. *)
InitCheck == \E b \in Boards, w \in Words : InitWith(b, NoDict, w, 0, 0)
NextCheck == op = "none" /\ Check
SpecCheck == InitCheck /\ [][NextCheck]_vars

(* Dictionary lookup: one call. *)
InitDictionary ==
    \E d \in LookupDicts, w \in Words :
        InitWith(PlainBoard(MIN_SIZE), d, w, 0, 0)
NextDictionary == op = "none" /\ (CheckDictionary \/ HasPrefix)
SpecDictionary == InitDictionary /\ [][NextDictionary]_vars

(* Adjacency on boards of every side length up to MaxSize: one call. *)
InitAdjacent ==
    \E n \in 1..MaxSize : \E i \in Indices(n) :
        InitWith(PlainBoard(n), NoDict, <<>>, 0, i)
NextAdjacent == op = "none" /\ Adjacent
SpecAdjacent == InitAdjacent /\ [][NextAdjacent]_vars

----------------------------------------------------------------------------
(* Construction of a board: Board(size=..., russian=...) and               *)
(* Board.from_list(letters).                                               *)

(* len(Board.LETTERS) and len(Board.LETTERS_RU) *)
LETTERS_len == 99
LETTERS_RU_len == 102

(* len(letter_set) in Board.__init__ *)
population(russian) == IF russian THEN LETTERS_RU_len ELSE LETTERS_len

(* The longest list of letters of the model, but for one oversized list. *)
MaxLetters == 10

(* The smallest side whose square exceeds the English letter set. *)
OverflowSize == ISqrt(LETTERS_len) + 1

(* Lists of k tiles: `filler` everywhere but in at most one place. *)
ListsOfLen(k, filler, tiles) ==
    { [i \in 0..(k - 1) |-> filler] }
    \cup { [i \in 0..(k - 1) |-> IF i = j THEN t ELSE filler] :
           j \in 0..(k - 1), t \in tiles }

(* Outcomes of random.sample(letter_set, k) among the lists of the model. *)
Samples(russian, k) ==
    IF russian
    THEN { l \in ListsOfLen(k, <<ch_ru>>, RuTiles) : IsSample(l, LETTERS_RU) }
    ELSE { l \in ListsOfLen(k, <<ch_a>>, EnTiles) : IsSample(l, LETTERS) }

(* Constructor calls: sides from -MIN_SIZE to MIN_SIZE in both languages   *)
(* and one side too large for the English letter set; lists of 0 to        *)
(* MaxLetters letters and one of OverflowSize * OverflowSize letters.      *)
BoardCalls ==
    { [kind |-> "Board", size |-> k, russian |-> r, letters |-> PyList(<<>>)] :
      k \in (-MIN_SIZE)..MIN_SIZE, r \in BOOLEAN }
    \cup { [kind |-> "Board", size |-> OverflowSize, russian |-> FALSE,
            letters |-> PyList(<<>>)] }

FromListCalls ==
    { [kind |-> "from_list", size |-> 0, russian |-> FALSE, letters |-> l] :
      l \in UNION { ListsOfLen(k, <<ch_a>>, EnTiles) : k \in 0..MaxLetters }
            \cup { Uniform(OverflowSize, <<ch_a>>) } }

(* what the variables of the board hold before a board is constructed *)
NoBoard == Board(0, FALSE, PyList(<<>>))

(* Board(size=ctor.size, russian=ctor.russian): random.sample raises       *)
(* ValueError when asked for more tiles than the letter set has.           *)
ConstructBoard ==
    /\ op = "none"
    /\ ctor.kind = "Board"
    /\ op' = "Board"
    /\ IF ctor.size * ctor.size > population(ctor.russian)
       THEN /\ ret' = Raised("ValueError")
            /\ UNCHANGED <<size, letters, english>>
       ELSE \E sample \in Samples(ctor.russian, ctor.size * ctor.size) :
               LET b == Board(ctor.size, ctor.russian, sample)
               IN  /\ ret' = Returned("Board")
                   /\ size' = b.size
                   /\ letters' = b.letters
                   /\ english' = b.english
    /\ prev' = [op |-> op, ret |-> ret]
    /\ UNCHANGED <<dct, response, args_min, cell, ctor>>
    /\ UNCHANGED <<main_vars, hanoi_vars, pairwise_vars>>

(* Board.from_list(ctor.letters): cls(size=size) draws a sample first. *)
ConstructFromList ==
    /\ op = "none"
    /\ ctor.kind = "from_list"
    /\ op' = "from_list"
    /\ LET sz == ISqrt(PyLen(ctor.letters))
       IN  IF sz * sz > population(FALSE)
           THEN /\ ret' = Raised("ValueError")
                /\ UNCHANGED <<size, letters, english>>
           ELSE \E sample \in Samples(FALSE, sz * sz) :
                   LET b == from_list(ctor.letters, sample)
                   IN  /\ ret' = Returned("Board")
                       /\ size' = b.size
                       /\ letters' = b.letters
                       /\ english' = b.english
    /\ prev' = [op |-> op, ret |-> ret]
    /\ UNCHANGED <<dct, response, args_min, cell, ctor>>
    /\ UNCHANGED <<main_vars, hanoi_vars, pairwise_vars>>

InitConstruct ==
    \E c \in BoardCalls \cup FromListCalls :
        /\ BoardWith(NoBoard, NoDict, <<>>, 0, 0, c)
        /\ MainIdle
        /\ HanoiIdle
        /\ PairwiseIdle
NextConstruct == ConstructBoard \/ ConstructFromList
SpecConstruct == InitConstruct /\ [][NextConstruct]_vars

----------------------------------------------------------------------------
(* A session: calls of check, all_words and check_dictionary in any order  *)
(* on one board and one dictionary, as the game loop of main() makes them. *)

SessionBoards == BoardsOn({0})
SessionWords == { <<ch_a, ch_q>>, QU }

InitSession ==
    \E b \in SessionBoards, d \in Dicts, w \in SessionWords, m \in 1..MaxMinLength :
        InitWith(b, d, w, m, 0)
NextSession == Check \/ AllWords \/ CheckDictionary
SpecSession == InitSession /\ [][NextSession]_vars

----------------------------------------------------------------------------
(* Enumeration over sorted dictionaries (repeated entries allowed): one    *)
(* call.                                                                   *)

SortedAscendingList(d) == \A i, j \in DOMAIN d : i < j => ~StrLess(d[j], d[i])

SortedDicts == { d \in Lists(DictWords, MaxDictLen) : SortedAscendingList(d) }

(* Boards with their other tiles among two cells of the first row, the     *)
(* middle cell next to both, and the last cell, next to the middle only.   *)
SortedBoards ==
    BoardsOn({0, 1, MIN_SIZE + 1, MIN_SIZE * MIN_SIZE - 1})

InitSorted ==
    \/ \E b \in SortedBoards, d \in SortedDicts, m \in MinLengths : InitWith(b, d, <<>>, m, 0)
    \/ \E b \in LongBoards, d \in LongDicts, m \in MinLengths : InitWith(b, d, <<>>, m, 0)
NextSorted == op = "none" /\ AllWords
SpecSorted == InitSorted /\ [][NextSorted]_vars

----------------------------------------------------------------------------
(* The enumeration followed by the verification of one dictionary word, in *)
(* the order of main(): all_words before the game, check for a response.   *)

AgreeBoards == BoardsOn({0, 1})

InitAgree ==
    \E b \in AgreeBoards, d \in SortedDicts, w \in DictWords, m \in 1..MaxMinLength :
        InitWith(b, d, w, m, 0)
NextAgree == (op = "none" /\ AllWords) \/ (op = "all_words" /\ Check)
SpecAgree == InitAgree /\ [][NextAgree]_vars

----------------------------------------------------------------------------
(* The recursive calls of the two searches.  A call is recorded with its   *)
(* arguments last_index and already_used and with `path`, the cells from   *)
(* the starting cell of the search down to last_index in the order the     *)
(* recursion took them (the code does not carry it: it is what the stack   *)
(* of calls holds).                                                        *)

Call(path, last_index, already_used) ==
    [path |-> path, last_index |-> last_index, already_used |-> already_used]

(* The calls of _check_helper one call of it makes, itself included, and   *)
(* its result: the loop over adjacent() stops at the first recursive call  *)
(* that returns True.                                                      *)
RECURSIVE check_helper_calls(_, _, _, _, _, _)
RECURSIVE check_for_calls(_, _, _, _, _, _, _, _)
check_for_calls(sz, ls, word, last_index, already_used, path, k, made) ==
    IF k > Len(adjacent(sz, last_index))
    THEN [result |-> FALSE, calls |-> made]
    ELSE LET index == adjacent(sz, last_index)[k]
             letter == ls[index]
         IN  IF index \in already_used \/ ~startswith(word, letter)
             THEN check_for_calls(sz, ls, word, last_index, already_used, path,
                                  k + 1, made)
             ELSE LET r == check_helper_calls(sz, ls, SliceFrom(word, Len(letter)),
                                              index, already_used \cup {index},
                                              Append(path, index))
                  IN  IF r.result
                      THEN [result |-> TRUE, calls |-> made \cup r.calls]
                      ELSE check_for_calls(sz, ls, word, last_index, already_used,
                                           path, k + 1, made \cup r.calls)

check_helper_calls(sz, ls, word, last_index, already_used, path) ==
    IF word = <<>>
    THEN [result |-> TRUE, calls |-> {Call(path, last_index, already_used)}]
    ELSE check_for_calls(sz, ls, word, last_index, already_used, path, 1,
                         {Call(path, last_index, already_used)})

RECURSIVE check_loop_calls(_, _, _, _, _, _)
check_loop_calls(sz, ls, first, rest, index, made) ==
    IF index = -1 THEN made
    ELSE LET r == check_helper_calls(sz, ls, rest, index, {index}, <<index>>)
         IN  IF r.result THEN made \cup r.calls
             ELSE check_loop_calls(sz, ls, first, rest, find(ls, first, index + 1),
                                   made \cup r.calls)

(* the calls of _check_helper that Board.check(word) makes *)
check_calls(sz, ls, en, word) ==
    IF en /\ startswith(word, QU)
    THEN Returned(check_loop_calls(sz, ls, SliceTo(word, 2), SliceFrom(word, 2),
                                   find(ls, SliceTo(word, 2), 0), {}))
    ELSE IF word = <<>>
    THEN Raised("IndexError")
    ELSE Returned(check_loop_calls(sz, ls, <<word[1]>>, SliceFrom(word, 1),
                                   find(ls, <<word[1]>>, 0), {}))

(* already_used is handed down as it is, without the cell stepped on *)
RECURSIVE all_words_helper_calls_stale(_, _, _, _, _, _, _, _)
all_words_helper_calls_stale(sz, ls, d, word, last_index, already_used, min_length, path) ==
    IF ~has_prefix(d, word)
    THEN {Call(path, last_index, already_used)}
    ELSE {Call(path, last_index, already_used)}
         \cup UNION { all_words_helper_calls_stale(sz, ls, d, word \o ls[adjacent_index],
                                                   adjacent_index, already_used,
                                                   min_length,
                                                   Append(path, adjacent_index)) :
                      adjacent_index \in
                          SeqRange(adjacent(sz, last_index)) \ already_used }

(* The calls of _all_words_helper one call of it makes, itself included:   *)
(* set() consumes the generator to its end.  (has_prefix is false also     *)
(* when dct_index = len(dct).)                                             *)
RECURSIVE all_words_helper_calls(_, _, _, _, _, _, _, _)
all_words_helper_calls(sz, ls, d, word, last_index, already_used, min_length, path) ==
    IF ~has_prefix(d, word)
    THEN {Call(path, last_index, already_used)}
    ELSE {Call(path, last_index, already_used)}
         \cup UNION { all_words_helper_calls(sz, ls, d, word \o ls[adjacent_index],
                                             adjacent_index,
                                             already_used \cup {adjacent_index},
                                             min_length,
                                             Append(path, adjacent_index)) :
                      adjacent_index \in
                          SeqRange(adjacent(sz, last_index)) \ already_used }

(* the calls of _all_words_helper that Board.all_words makes *)
all_words_calls(sz, ls, d, min_length) ==
    UNION { all_words_helper_calls(sz, ls, d, ls[i], i, {i}, min_length, <<i>>) :
            i \in 0..(sz * sz - 1) }

CheckCalls ==
    /\ op' = "check_calls"
    /\ ret' = check_calls(size, letters, english, response)
    /\ prev' = [op |-> op, ret |-> ret]
    /\ UNCHANGED <<size, letters, english, dct, response, args_min, cell, ctor>>
    /\ UNCHANGED <<main_vars, hanoi_vars, pairwise_vars>>

AllWordsCalls ==
    /\ op' = "all_words_calls"
    /\ ret' = Returned(all_words_calls(size, letters, dct, args_min))
    /\ prev' = [op |-> op, ret |-> ret]
    /\ UNCHANGED <<size, letters, english, dct, response, args_min, cell, ctor>>
    /\ UNCHANGED <<main_vars, hanoi_vars, pairwise_vars>>

CallBoards == BoardsOn({0, MIN_SIZE + 1})

InitCalls ==
    \/ \E b \in CallBoards, w \in Words : InitWith(b, NoDict, w, 1, 0)
    \/ \E b \in CallBoards, d \in Dicts : InitWith(b, d, <<>>, 1, 0)
NextCalls == op = "none" /\ (CheckCalls \/ AllWordsCalls)
SpecCalls == InitCalls /\ [][NextCalls]_vars

----------------------------------------------------------------------------
(* hanoi.py: solve_iterative(n), one step per test of the while condition  *)
(* and per call of move_between.                                           *)

Tower == [pegs |-> pegs, moves |-> moves, exc |-> "none"]

BoardIdle == BoardWith(NoBoard, NoDict, <<>>, 0, 0, NoCtor) /\ MainIdle

HanoiWith(k, at, program) ==
    /\ argv_n = k
    /\ pegs = TowerOfHanoi(k).pegs
    /\ moves = TowerOfHanoi(k).moves
    /\ pc = at
    /\ todo = program
    /\ err = "none"

(* `while not tower.finished()`, and the print after the loop *)
IterativeWhile ==
    /\ pc = "while"
    /\ pc' = IF ~finished(Tower) THEN "first" ELSE "done"
    /\ UNCHANGED <<argv_n, pegs, moves, todo, err>>
    /\ UNCHANGED <<board_vars, main_vars, pairwise_vars>>

(* the move_between call at pc; a ValueError that escapes it ends the      *)
(* program                                                                 *)
IterativeMoveBetween ==
    /\ pc \in {"first", "second", "third"}
    /\ LET call == iterative_call(argv_n, pc)
           after == move_between(Tower, call[1], call[2])
       IN  IF after.exc = "ValueError"
           THEN /\ err' = "ValueError"
                /\ pc' = "raised"
                /\ UNCHANGED <<pegs, moves>>
           ELSE /\ pegs' = after.pegs
                /\ moves' = after.moves
                /\ pc' = iterative_after(pc)
                /\ UNCHANGED err
    /\ UNCHANGED <<argv_n, todo>>
    /\ UNCHANGED <<board_vars, main_vars, pairwise_vars>>

InitIterative ==
    \E k \in 0..MaxDisks :
        BoardIdle /\ PairwiseIdle /\ HanoiWith(k, "while", <<>>)
NextIterative == IterativeWhile \/ IterativeMoveBetween
(* the interpreter runs the program on: a step that can be taken is taken *)
SpecIterative ==
    InitIterative /\ [][NextIterative]_vars /\ WF_vars(NextIterative)

----------------------------------------------------------------------------
(* hanoi.py: solve_restricted(n), one step per call of move_and_print.     *)
(* The recursion of the inner solve does not read the tower, so the calls  *)
(* still to be made (todo) are the position in it.  (n < 1 never reaches   *)
(* disks == 1 and is left out.)                                            *)

(* a ValueError is caught by solve_restricted, which prints it and ends *)
RestrictedMove ==
    /\ pc = "solve"
    /\ todo # <<>>
    /\ LET after == move_and_print(Tower, Head(todo)[1], Head(todo)[2], TRUE)
       IN  IF after.exc = "ValueError"
           THEN /\ err' = "ValueError"
                /\ pc' = "error"
                /\ UNCHANGED <<pegs, moves, todo>>
           ELSE /\ pegs' = after.pegs
                /\ moves' = after.moves
                /\ todo' = Tail(todo)
                /\ UNCHANGED <<pc, err>>
    /\ UNCHANGED argv_n
    /\ UNCHANGED <<board_vars, main_vars, pairwise_vars>>

(* solve(n, 0, 2) has returned: "Solved in ... moves." *)
RestrictedSolved ==
    /\ pc = "solve"
    /\ todo = <<>>
    /\ pc' = "done"
    /\ UNCHANGED <<argv_n, pegs, moves, todo, err>>
    /\ UNCHANGED <<board_vars, main_vars, pairwise_vars>>

InitRestricted ==
    \E k \in 1..MaxDisks :
        BoardIdle /\ PairwiseIdle /\ HanoiWith(k, "solve", solve(k, 0, 2))
NextRestricted == RestrictedMove \/ RestrictedSolved
SpecRestricted == InitRestricted /\ [][NextRestricted]_vars

----------------------------------------------------------------------------
(* hanoi.py: calls of TowerOfHanoi.move with any pegs and either mode, by  *)
(* a caller that catches the ValueError and goes on; err is what the last  *)
(* call raised.  Runs end after MaxMoves successful calls.                 *)

MaxMoves == 6

Move ==
    /\ pc = "move"
    /\ moves < MaxMoves
    /\ \E src \in 0..2, dest \in 0..2, restricted \in BOOLEAN :
          LET after == move(Tower, src, dest, restricted)
          IN  /\ pegs' = after.pegs
              /\ moves' = after.moves
              /\ err' = after.exc
    /\ UNCHANGED <<argv_n, pc, todo>>
    /\ UNCHANGED <<board_vars, main_vars, pairwise_vars>>

InitMove ==
    \E k \in 0..MaxDisks :
        BoardIdle /\ PairwiseIdle /\ HanoiWith(k, "move", <<>>)
NextMove == Move
SpecMove == InitMove /\ [][NextMove]_vars

----------------------------------------------------------------------------
(* pycommon.py: a consumer that takes from pairwise(items) until the       *)
(* generator ends or raises, as list() does.                               *)

PairItems == 1..2

PairwiseStart ==
    /\ gen.state = "created"
    /\ LET r == pairwise_start(items, gen, generator_stop)
       IN  /\ gen' = r.gen
           /\ yielded' = yielded \o r.out
    /\ UNCHANGED <<items, generator_stop>>
    /\ UNCHANGED <<board_vars, main_vars, hanoi_vars>>

PairwiseResume ==
    /\ gen.state = "suspended"
    /\ LET r == pairwise_resume(items, gen, generator_stop)
       IN  /\ gen' = r.gen
           /\ yielded' = yielded \o r.out
    /\ UNCHANGED <<items, generator_stop>>
    /\ UNCHANGED <<board_vars, main_vars, hanoi_vars>>

InitPairwise ==
    \E xs \in Strings(PairItems, MaxItems), stop \in BOOLEAN :
        /\ BoardIdle
        /\ HanoiIdle
        /\ items = xs
        /\ gen = pairwise(xs)
        /\ yielded = <<>>
        /\ generator_stop = stop
NextPairwise == PairwiseStart \/ PairwiseResume
SpecPairwise == InitPairwise /\ [][NextPairwise]_vars

----------------------------------------------------------------------------
(* boggle.py, main(): loading the dictionary.                              *)

MaxFileLen == 4

FileChars == {ch_nl, ch_a, ch_q}

MainWith(contents, m, c) ==
    /\ BoardWith(NoBoard, NoDict, <<>>, m, 0, c)
    /\ file = contents
    /\ main_pc = "open"
    /\ all_possible_words = {}
    /\ best_possible_score = 0
    /\ your_words = {}
    /\ your_score = 0

(* dct = open_dictionary(args.words) *)
OpenDictionary ==
    /\ main_pc = "open"
    /\ dct' = open_dictionary(file)
    /\ main_pc' = "board"
    /\ UNCHANGED <<size, letters, english, response, args_min, cell, op, ret, prev, ctor>>
    /\ UNCHANGED <<file, all_possible_words, best_possible_score, your_words, your_score>>
    /\ UNCHANGED <<hanoi_vars, pairwise_vars>>

(* Files of up to MaxFileLen characters, newlines among them anywhere. *)
InitLoad ==
    \E contents \in Strings(FileChars, MaxFileLen) :
        MainWith(contents, 0, NoCtor) /\ HanoiIdle /\ PairwiseIdle
NextLoad == OpenDictionary
SpecLoad == InitLoad /\ [][NextLoad]_vars

----------------------------------------------------------------------------
(* boggle.py main(): the dictionary is loaded, boards are drawn until one  *)
(* has a word that scores, then the player's responses are read until the  *)
(* input ends or the time is up.  op names what the last step of the loop  *)
(* did, ret holds the percentage it computed (numerator and denominator).  *)

(* Further characters of the player's input: "!", "p", "s", a space and a  *)
(* capital "A".  None of them is on a board, so none reaches a comparison  *)
(* by order.                                                               *)
ch_bang == 5
ch_p == 6
ch_s == 7
ch_sp == 8
ch_A == 9

(* str.strip(): spaces and newlines go from both ends *)
RECURSIVE strip(_)
strip(s) ==
    IF s # <<>> /\ Head(s) \in {ch_sp, ch_nl} THEN strip(Tail(s))
    ELSE IF s # <<>> /\ s[Len(s)] \in {ch_sp, ch_nl}
    THEN strip(SubSeq(s, 1, Len(s) - 1))
    ELSE s

(* str.lower() *)
lower(s) == [i \in 1..Len(s) |-> IF s[i] = ch_A THEN ch_a ELSE s[i]]

(* sum(map(score, ws)) *)
RECURSIVE sum_score(_)
sum_score(ws) ==
    IF ws = {} THEN 0
    ELSE LET w == CHOOSE x \in ws : TRUE
         IN  score(w) + sum_score(ws \ {w})

(* your_score / best_possible_score, kept as the pair of its operands *)
perc(score_, best) ==
    IF best = 0 THEN Raised("ZeroDivisionError") ELSE Returned(<<score_, best>>)

(* The most lines a dictionary file of the game has. *)
MaxLines == 4

MIN_WORD_LENGTH == 3

(* Lines of the dictionary file; the empty line, when last, is what a     *)
(* newline at the end of the file leaves.                                  *)
MainLines == { <<>>, <<ch_a>>, <<ch_u>>, <<ch_a, ch_a, ch_a>>, <<ch_u, ch_a, ch_a>> }

RECURSIVE JoinLines(_, _)
JoinLines(ls, n) ==
    IF n = 0 THEN <<>>
    ELSE IF n = 1 THEN ls[0]
    ELSE JoinLines(ls, n - 1) \o <<ch_nl>> \o ls[n - 1]

(* Files of up to MaxLines distinct lines in any order. *)
MainFiles ==
    { JoinLines(ls, PyLen(ls)) :
      ls \in { l \in Lists(MainLines, MaxLines) :
                \A i, j \in DOMAIN l : i # j => l[i] # l[j] } }

(* What the player types. *)
MainInputs ==
    { <<>>, <<ch_a>>, <<ch_a, ch_a, ch_a>>, <<ch_u, ch_a, ch_a>>,
      <<ch_sp, ch_A, ch_a, ch_a, ch_sp>>, <<ch_a, ch_a, ch_u>>,
      <<ch_bang, ch_p>>, <<ch_bang, ch_s>>, <<ch_bang, ch_p, ch_s>>,
      <<ch_bang, ch_s, ch_p>> }

(* The boards random.sample can give main, among those of the model: nine  *)
(* "a", or "u" in the first cell.                                          *)
MainSamples ==
    { l \in LetterLists(MIN_SIZE, <<ch_a>>, {<<ch_u>>}, {0}) : IsSample(l, LETTERS) }

MainCtor ==
    [kind |-> "Board", size |-> MIN_SIZE, russian |-> FALSE, letters |-> PyList(<<>>)]

(* one pass of `while best_possible_score == 0` *)
MainBoard ==
    /\ main_pc = "board"
    /\ \E sample \in MainSamples :
          LET b == Board(ctor.size, ctor.russian, sample)
              found == all_words(b.size, b.letters, dct, args_min)
          IN  /\ size' = b.size
              /\ letters' = b.letters
              /\ english' = b.english
              /\ all_possible_words' = found
              /\ best_possible_score' = sum_score(found)
              /\ main_pc' = IF sum_score(found) = 0 THEN "board" ELSE "input"
    /\ UNCHANGED <<dct, response, args_min, cell, op, ret, prev, ctor>>
    /\ UNCHANGED <<file, your_words, your_score>>
    /\ UNCHANGED <<hanoi_vars, pairwise_vars>>

(* what lines 99-125 do with the response once it is read in time *)
Respond(typed) ==
    LET r == lower(strip(typed))
    IN  /\ response' = r
        /\ IF r = <<ch_bang, ch_p>>
           THEN /\ op' = "display"
                /\ UNCHANGED <<ret, your_words, your_score>>
           ELSE IF r \in { <<ch_bang, ch_s>>, <<ch_bang, ch_p, ch_s>>, <<ch_bang, ch_s, ch_p>> }
           THEN /\ op' = "perc"
                /\ ret' = perc(your_score, best_possible_score)
                /\ UNCHANGED <<your_words, your_score>>
           ELSE IF r = <<>>
           THEN /\ op' = "empty"
                /\ UNCHANGED <<ret, your_words, your_score>>
           ELSE IF r \in your_words
           THEN /\ op' = "already_said"
                /\ UNCHANGED <<ret, your_words, your_score>>
           ELSE IF Len(r) < args_min
           THEN /\ op' = "too_short"
                /\ UNCHANGED <<ret, your_words, your_score>>
           ELSE LET on_board == check(size, letters, english, r)
                IN  IF on_board.exc # "none"
                    THEN /\ op' = "raised"
                         /\ ret' = on_board
                         /\ UNCHANGED <<your_words, your_score>>
                    ELSE IF ~on_board.val
                    THEN /\ op' = "not_on_board"
                         /\ UNCHANGED <<ret, your_words, your_score>>
                    ELSE IF ~check_dictionary(dct, r)
                    THEN /\ op' = "not_in_dictionary"
                         /\ UNCHANGED <<ret, your_words, your_score>>
                    ELSE /\ op' = "added"
                         /\ your_words' = your_words \cup {r}
                         /\ your_score' = your_score + score(r)
                         /\ UNCHANGED ret

(* one pass of `while True` that reaches the end of the body *)
MainRespond ==
    /\ main_pc = "input"
    /\ \E typed \in MainInputs :
          /\ Respond(typed)
          /\ main_pc' = IF op' = "raised" THEN "raised" ELSE "input"
    /\ UNCHANGED <<size, letters, english, dct, args_min, cell, prev, ctor>>
    /\ UNCHANGED <<file, all_possible_words, best_possible_score>>
    /\ UNCHANGED <<hanoi_vars, pairwise_vars>>

(* the input ends or is interrupted (87-93), and the final percentage *)
MainInterrupt ==
    /\ main_pc = "input"
    /\ main_pc' = "done"
    /\ op' = "final_perc"
    /\ ret' = perc(your_score, best_possible_score)
    /\ UNCHANGED <<size, letters, english, dct, response, args_min, cell, prev, ctor>>
    /\ UNCHANGED <<file, all_possible_words, best_possible_score, your_words, your_score>>
    /\ UNCHANGED <<hanoi_vars, pairwise_vars>>

(* a response that arrives when the time is up (95-97) is dropped, and the *)
(* final percentage                                                        *)
MainTimeUp ==
    /\ main_pc = "input"
    /\ \E typed \in MainInputs : response' = lower(strip(typed))
    /\ main_pc' = "done"
    /\ op' = "final_perc"
    /\ ret' = perc(your_score, best_possible_score)
    /\ UNCHANGED <<size, letters, english, dct, args_min, cell, prev, ctor>>
    /\ UNCHANGED <<file, all_possible_words, best_possible_score, your_words, your_score>>
    /\ UNCHANGED <<hanoi_vars, pairwise_vars>>

InitMain ==
    \E contents \in MainFiles, m \in {1, MIN_WORD_LENGTH} :
        MainWith(contents, m, MainCtor) /\ HanoiIdle /\ PairwiseIdle
NextMain == OpenDictionary \/ MainBoard \/ MainRespond \/ MainInterrupt \/ MainTimeUp
SpecMain == InitMain /\ [][NextMain]_vars

----------------------------------------------------------------------------
(* What the claims speak of, stated without the search code: geometry by   *)
(* row and column, and paths as sequences of cells.                        *)

Row(sz, i) == i \div sz
Col(sz, i) == i % sz
Abs(x) == IF x < 0 THEN -x ELSE x

(* i and j are distinct cells one step apart in row and in column *)
Neighbours(sz, i, j) ==
    /\ i # j
    /\ Abs(Row(sz, i) - Row(sz, j)) <= 1
    /\ Abs(Col(sz, i) - Col(sz, j)) <= 1

RECURSIVE Concat(_, _)
Concat(ls, p) == IF p = <<>> THEN <<>> ELSE ls[Head(p)] \o Concat(ls, Tail(p))

(* The walks of k adjacent cells whose tiles spell a prefix of w; with     *)
(* simple = TRUE no cell occurs twice.                                     *)
RECURSIVE PrefixWalks(_, _, _, _, _)
PrefixWalks(sz, ls, w, k, simple) ==
    IF k = 1
    THEN { <<i>> : i \in { j \in Indices(sz) : startswith(w, ls[j]) } }
    ELSE { Append(pj[1], pj[2]) :
           pj \in { qj \in PrefixWalks(sz, ls, w, k - 1, simple) \X Indices(sz) :
                      /\ Neighbours(sz, qj[1][Len(qj[1])], qj[2])
                      /\ simple => qj[2] \notin SeqRange(qj[1])
                      /\ startswith(w, Concat(ls, Append(qj[1], qj[2]))) } }

(* w is the concatenation of the tiles along some simple path *)
Spellable(sz, ls, w) ==
    \E k \in 1..Len(w) : \E p \in PrefixWalks(sz, ls, w, k, TRUE) : Concat(ls, p) = w

(* w is spelled by a walk that may come back to a cell *)
SpellableByWalk(sz, ls, w) ==
    \E k \in 1..Len(w) : \E p \in PrefixWalks(sz, ls, w, k, FALSE) : Concat(ls, p) = w

Entries(d) == { d[i] : i \in DOMAIN d }

SortedAscending(d) == \A i, j \in DOMAIN d : i < j => ~StrLess(d[j], d[i])

SortedDistinct(d) == \A i, j \in DOMAIN d : i < j => StrLess(d[i], d[j])

RECURSIVE SumLen(_, _)
SumLen(ls, n) == IF n = 0 THEN 0 ELSE Len(ls[n - 1]) + SumLen(ls, n - 1)

(* the number of characters on the board *)
TotalChars(ls) == SumLen(ls, PyLen(ls))

----------------------------------------------------------------------------
(* Claims. *)

(* C1: for every non-empty word, Board.check(word) returns True if and     *)
(* only if some simple path of adjacent cells spells the word exactly.     *)
C1_CheckIffSpellable ==
    (op = "check" /\ response # <<>>) =>
        /\ ret.exc = "none"
        /\ ret.val <=> Spellable(size, letters, response)

(* C2: for a sorted dictionary of distinct words, Board.all_words returns  *)
(* exactly the dictionary words of at least min_length characters that a   *)
(* simple path of adjacent cells spells.                                   *)
C2_AllWordsExact ==
    (op = "all_words" /\ SortedDistinct(dct)) =>
        ret.val = { w \in Entries(dct) :
                      Len(w) >= args_min /\ Spellable(size, letters, w) }

C2_Witness ==
    /\ op = "all_words"
    /\ SortedDistinct(dct)
    /\ PyLen(dct) = MaxDictLen
    /\ Cardinality(ret.val) = 1
    /\ args_min > 0

(* C3: for any dictionary sequence, sorted or not, every word all_words    *)
(* returns is an entry of the dictionary and has at least min_length       *)
(* characters.                                                             *)
C3_SubsetAndMinLength ==
    op = "all_words" =>
        \A w \in ret.val : w \in Entries(dct) /\ Len(w) >= args_min

C3_Witness ==
    /\ op = "all_words"
    /\ ~SortedAscending(dct)
    /\ ret.val # {}
    /\ \E w \in Entries(dct) : Len(w) < args_min /\ Spellable(size, letters, w)

(* C4: Board.check accepts a word only along a path that uses no cell      *)
(* twice; a word that only a walk coming back to a cell could spell is     *)
(* refused.                                                                *)
C4_NoIndexReused ==
    (op = "check" /\ ret.exc = "none" /\ ret.val) =>
        Spellable(size, letters, response)

C4_Witness ==
    /\ op = "check"
    /\ ret.exc = "none"
    /\ ~ret.val
    /\ SpellableByWalk(size, letters, response)

(* C5 as stated: all_words with min_length greater than size*size returns  *)
(* the empty set.                                                          *)
C5_EmptyAboveSizeSquared ==
    (op = "all_words" /\ args_min > size * size) => ret.val = {}

(* C5 as amended: all_words with min_length greater than the number of     *)
(* characters on the board (the sum of the tile lengths) returns the empty *)
(* set.                                                                    *)
C5_EmptyAboveTotalChars ==
    (op = "all_words" /\ args_min > TotalChars(letters)) => ret.val = {}

C5_Witness ==
    /\ op = "all_words"
    /\ args_min > TotalChars(letters)
    /\ TotalChars(letters) > size * size
    /\ \E w \in Entries(dct) : Spellable(size, letters, w)
    /\ ret.val = {}

----------------------------------------------------------------------------
(* C6: Board.adjacent(i) yields no index twice, never i, only cells of the *)
(* board, and only cells one step from i in row and column (no wrap).      *)
C6_AdjacentSound ==
    op = "adjacent" =>
        /\ \A j, k \in 1..Len(ret.val) : j # k => ret.val[j] # ret.val[k]
        /\ cell \notin SeqRange(ret.val)
        /\ SeqRange(ret.val) \subseteq Indices(size)
        /\ \A j \in SeqRange(ret.val) : Neighbours(size, cell, j)

C6_Witness ==
    /\ op = "adjacent"
    /\ size >= MIN_SIZE
    /\ Col(size, cell) = size - 1
    /\ Row(size, cell) \notin {0, size - 1}
    /\ ret.val # <<>>

OnBorder(sz, k) == k = 0 \/ k = sz - 1

(* C7: for size >= 3, adjacent yields 3 indices for a corner, 5 for an     *)
(* edge cell that is no corner, 8 for an interior cell.                    *)
C7_AdjacentCount ==
    (op = "adjacent" /\ size >= 3) =>
        Len(ret.val) =
            IF OnBorder(size, Row(size, cell)) /\ OnBorder(size, Col(size, cell)) THEN 3
            ELSE IF OnBorder(size, Row(size, cell)) \/ OnBorder(size, Col(size, cell)) THEN 5
            ELSE 8

C7_Witness ==
    /\ op = "adjacent"
    /\ size >= 3
    /\ ~OnBorder(size, Row(size, cell))
    /\ ~OnBorder(size, Col(size, cell))
    /\ Len(ret.val) = 8

----------------------------------------------------------------------------
(* C8: on a dictionary sorted ascending, check_dictionary(dct, word) is    *)
(* True exactly when word is an entry of dct.                              *)
C8_ContainsIffMember ==
    (op = "check_dictionary" /\ SortedAscending(dct)) =>
        (ret.val <=> response \in Entries(dct))

C8_Witness ==
    /\ op = "check_dictionary"
    /\ SortedAscending(dct)
    /\ PyLen(dct) = MaxDictLen
    /\ dct[PyLen(dct) - 1] = response
    /\ dct[0] # response
    /\ ret.val

(* C9: on a sorted dictionary, the prefix test of the enumeration is true  *)
(* exactly when some entry starts with the string.                         *)
C9_PrefixTestIffSomeEntry ==
    (op = "has_prefix" /\ SortedAscending(dct)) =>
        (ret.val <=> \E e \in Entries(dct) : startswith(e, response))

C9_Witness ==
    /\ op = "has_prefix"
    /\ SortedAscending(dct)
    /\ response \notin Entries(dct)
    /\ response # <<>>
    /\ \E e \in Entries(dct) : StrLess(e, response)
    /\ ret.val

(* C10: Board.check returns a boolean without raising for every word, the  *)
(* empty word included, and Board.all_words returns a set without raising. *)
C10_NotFoundNeverRaises ==
    /\ op = "check" => (ret.exc = "none" /\ ret.val \in BOOLEAN)
    /\ op = "all_words" => ret.exc = "none"

----------------------------------------------------------------------------
(* the size the constructor call is to give the board *)
ResultingSize ==
    IF ctor.kind = "Board" THEN ctor.size ELSE ISqrt(PyLen(ctor.letters))

(* C11: constructing a board through Board(size=...) or Board.from_list    *)
(* with a resulting size smaller than 3 signals a fault at construction    *)
(* instead of producing a Board.                                           *)
C11_SmallSizeRejected ==
    (op \in {"Board", "from_list"} /\ ResultingSize < MIN_SIZE) =>
        ret.exc # "none"

(* C12: every constructed Board holds exactly size*size tiles, after       *)
(* Board(size=n) and after Board.from_list(letters) for any list.          *)
C12_ExactlySizeSquaredTiles ==
    (op \in {"Board", "from_list"} /\ ret.exc = "none") =>
        PyLen(letters) = size * size

----------------------------------------------------------------------------
C14_CallsLeaveBoardAndDictionary ==
    [][letters' = letters /\ size' = size /\ dct' = dct]_vars

C14_Witness ==
    /\ op = "check_dictionary"
    /\ prev.op = "all_words"
    /\ ret.val
    /\ response \in prev.ret.val

----------------------------------------------------------------------------
(* (x0, x1), (x1, x2), ... of xs; none for fewer than two elements *)
AdjacentPairs(xs) == [k \in 1..(Len(xs) - 1) |-> <<xs[k], xs[k + 1]>>]

(* C15: consumed to exhaustion, pairwise(it) yields exactly the successive *)
(* adjacent pairs of the input, in order, and then finishes normally,      *)
(* without raising; nothing is yielded for zero or one elements.           *)
C15_PairwiseYieldsPairsAndEnds ==
    gen.state \notin {"none", "created", "suspended"} =>
        /\ gen.state = "finished"
        /\ yielded = AdjacentPairs(items)

----------------------------------------------------------------------------
(* the tower with all n disks on the last peg *)
Solved(k) == [p \in 0..2 |-> IF p = 2 THEN [i \in 1..k |-> i - 1] ELSE <<>>]

RECURSIVE Pow(_, _)
Pow(b, e) == IF e = 0 THEN 1 ELSE b * Pow(b, e - 1)

(* C16: solve_iterative(n) terminates, with all n disks on the last peg;   *)
(* no ValueError escapes a move_between call; no move is made once the     *)
(* puzzle is finished.                                                     *)
C16_IterativeTerminatesSolved ==
    /\ [](err = "none" /\ pc # "raised")
    /\ <>(pc = "done")
    /\ [](pc = "done" => pegs = Solved(argv_n))
    /\ [][finished(Tower) => (pegs' = pegs /\ moves' = moves)]_vars

C16_Witness ==
    /\ pc = "done"
    /\ argv_n = MaxDisks
    /\ moves = Pow(2, argv_n) - 1
    /\ pegs = Solved(argv_n)

(* C17: solve_restricted(n) makes only moves that begin or end at peg 1,   *)
(* never meets the ValueError of TowerOfHanoi.move, and ends with all n    *)
(* disks on peg 2.                                                         *)
C17_RestrictedSolves ==
    /\ err = "none"
    /\ pc # "error"
    /\ \A k \in 1..Len(todo) : todo[k][1] = 1 \/ todo[k][2] = 1
    /\ pc = "done" => pegs = Solved(argv_n)

C17_Witness ==
    /\ pc = "done"
    /\ argv_n = MaxDisks
    /\ moves = Pow(3, argv_n) - 1
    /\ pegs = Solved(argv_n)

----------------------------------------------------------------------------
(* The depth-first enumeration without the prefix test: every simple path  *)
(* is followed and a string is kept when it is an entry of the dictionary  *)
(* of at least min_length characters.  (A path is left only when its       *)
(* string is as long as the longest entry: every tile adds a character.)   *)
MaxEntryLen(d) ==
    IF Entries(d) = {} THEN 0
    ELSE CHOOSE k \in { Len(e) : e \in Entries(d) } :
            \A e \in Entries(d) : Len(e) <= k

RECURSIVE all_words_helper_unpruned(_, _, _, _, _, _, _)
all_words_helper_unpruned(sz, ls, d, word, last_index, already_used, min_length) ==
    (IF word \in Entries(d) /\ Len(word) >= min_length THEN {word} ELSE {})
    \cup
    (IF Len(word) >= MaxEntryLen(d) THEN {}
     ELSE UNION { all_words_helper_unpruned(sz, ls, d, word \o ls[j], j,
                                            already_used \cup {j}, min_length) :
                  j \in { c \in Indices(sz) : Neighbours(sz, last_index, c) }
                        \ already_used })

all_words_unpruned(sz, ls, d, min_length) ==
    UNION { all_words_helper_unpruned(sz, ls, d, ls[i], i, {i}, min_length) :
            i \in Indices(sz) }

(* C18: on a sorted dictionary, all_words with the early return on a       *)
(* failed prefix test returns the same set as the depth-first enumeration  *)
(* without it.                                                             *)
C18_PruningIsSafe ==
    (op = "all_words" /\ SortedAscending(dct)) =>
        ret.val = all_words_unpruned(size, letters, dct, args_min)

C18_Witness ==
    /\ op = "all_words"
    /\ SortedAscending(dct)
    /\ PyLen(dct) >= 2
    /\ \E i \in Indices(size) : ~has_prefix(dct, letters[i])
    /\ \E w \in ret.val : Len(w) >= 2

(* some simple path that spells wx passes, on its way, a cell at which it  *)
(* has spelled w                                                           *)
ExtendsPath(sz, ls, w, wx) ==
    \E k \in 2..Len(wx) :
        \E p \in PrefixWalks(sz, ls, wx, k, TRUE) :
            /\ Concat(ls, p) = wx
            /\ \E j \in 1..(k - 1) : Concat(ls, SubSeq(p, 1, j)) = w

(* C19: when the (sorted) dictionary has a word w and a longer word w+x,   *)
(* both of at least min_length characters, and a simple path that spells   *)
(* w+x extends one that spells w, all_words returns both.                  *)
C19_ContinuesPastFoundWord ==
    (op = "all_words" /\ SortedAscending(dct)) =>
        \A w, wx \in Entries(dct) :
            ( /\ Len(w) >= args_min
              /\ Len(wx) > Len(w)
              /\ startswith(wx, w)
              /\ ExtendsPath(size, letters, w, wx) )
            => (w \in ret.val /\ wx \in ret.val)

C19_Witness ==
    /\ op = "all_words"
    /\ SortedAscending(dct)
    /\ \E w, wx \in Entries(dct) :
          /\ Len(w) >= args_min
          /\ Len(wx) > Len(w)
          /\ ExtendsPath(size, letters, w, wx)
          /\ w \in ret.val
          /\ wx \in ret.val

----------------------------------------------------------------------------
(* C20: in every recursive call of _check_helper and _all_words_helper,    *)
(* already_used is exactly the set of the cells on the path from the       *)
(* starting cell to last_index: it has last_index, one element per tile of *)
(* the path, and no cell that only another branch visited.                 *)
C20_AlreadyUsedIsThePath ==
    (op \in {"check_calls", "all_words_calls"} /\ ret.exc = "none") =>
        \A c \in ret.val :
            /\ c.already_used = SeqRange(c.path)
            /\ Cardinality(c.already_used) = Len(c.path)
            /\ c.path[Len(c.path)] = c.last_index
            /\ \A k \in 1..(Len(c.path) - 1) :
                  Neighbours(size, c.path[k], c.path[k + 1])

(* a cell one branch stepped on is on the path of a sibling branch *)
C20_Witness ==
    /\ op = "all_words_calls"
    /\ \E c1, c2 \in ret.val :
          /\ Len(c1.path) = 2
          /\ Len(c2.path) = 3
          /\ c1.path[1] = c2.path[1]
          /\ c1.path[2] # c2.path[2]
          /\ c1.path[2] = c2.path[3]

----------------------------------------------------------------------------
(* C21: the dictionary open_dictionary returns is sorted ascending, for    *)
(* any contents of the file: with a newline at the end, or with lines that *)
(* are not in order.                                                       *)
C21_LoaderReturnsSorted ==
    main_pc = "board" => SortedAscending(dct)

(* C22: for a sorted dictionary and a word of it of at least min_length    *)
(* characters, Board.check(word) is True if and only if the word is in     *)
(* Board.all_words(dct, min_length), on every board, those with lone "q"   *)
(* and "u" tiles included.                                                 *)
C22_CheckAgreesWithAllWords ==
    ( /\ op = "check"
      /\ prev.op = "all_words"
      /\ SortedAscending(dct)
      /\ response \in Entries(dct)
      /\ Len(response) >= args_min )
    => /\ ret.exc = "none"
       /\ ret.val <=> response \in prev.ret.val

----------------------------------------------------------------------------
(* each of the n initial disks is at exactly one place of one peg *)
DisksConserved ==
    /\ Len(pegs[0]) + Len(pegs[1]) + Len(pegs[2]) = argv_n
    /\ \A disk \in 0..(argv_n - 1) :
          \E p \in 0..2 : \E i \in 1..Len(pegs[p]) : pegs[p][i] = disk

(* bottom to top, every disk lies on one the code lets it lie on *)
PegsOrdered ==
    \A p \in 0..2 : \A i, j \in 1..Len(pegs[p]) : i < j => pegs[p][i] < pegs[p][j]

(* C24: after any sequence of TowerOfHanoi.move calls with src, dest in    *)
(* 0..2 in either mode, the pegs hold exactly the n initial disks, each    *)
(* once, every peg is strictly ordered bottom to top, a call that raises   *)
(* leaves pegs and moves as they were and a call that succeeds adds        *)
(* exactly 1 to moves.                                                     *)
C24_MoveKeepsTower ==
    /\ [](DisksConserved /\ PegsOrdered)
    /\ [][ /\ err' = "ValueError" => (pegs' = pegs /\ moves' = moves)
           /\ err' = "none" => moves' = moves + 1 ]_vars

C24_Witness ==
    /\ pc = "move"
    /\ err = "ValueError"
    /\ moves >= 3
    /\ \A p \in 0..2 : pegs[p] # <<>>

----------------------------------------------------------------------------
(* C23: in the game loop of main, after any sequence of responses,         *)
(* your_words is a subset of all_possible_words, your_score is the sum of  *)
(* score(w) over your_words, so your_score <= best_possible_score, and     *)
(* best_possible_score > 0 whenever a percentage is computed.              *)
C23_GameLoopScoresWithinBest ==
    main_pc \in {"input", "done"} =>
        /\ your_words \subseteq all_possible_words
        /\ your_score = sum_score(your_words)
        /\ your_score <= best_possible_score
        /\ op \in {"perc", "final_perc"} =>
              (ret.exc = "none" /\ best_possible_score > 0)

====
